---- MODULE Spec2Model ----
(***************************************************************************)
(* Model of the anchor_vault program (programs/anchor-vault/src/lib.rs).   *)
(*                                                                         *)
(* The ledger is a set of accounts, each with a lamport balance, an owning *)
(* program and (for the record account) a stored bump.  One action per     *)
(* instruction: the account validation generated from the #[derive(        *)
(* Accounts)] struct, then the handler body, then the exit step (the       *)
(* `close = signer` constraint).  Lamports are scaled to small units;      *)
(* transaction fees are left out.                                          *)
(***************************************************************************)
EXTENDS Integers, FiniteSets, Sequences, TLC

\* ---------------------------------------------------------------- bounds
Owners == {1, 2}          \* public keys of the users that can sign
MaxAmount == 3            \* largest `amount: u64` argument explored
MaxWallet == 4            \* lamports a funded user starts with

\* --------------------------------------------------- program constants
\* Rent::get()?.minimum_balance(0): the rent-exempt floor of a data-less
\* account (scaled).
RentFloor == 1
\* Rent-exempt minimum of the record account, space = 8 + INIT_SPACE
\* (scaled; more than RentFloor because the account carries 9 bytes).
RecordRent == 2
\* Largest value of a u8 bump; find_program_address searches down from it.
MaxBump == 255

VaultTag == "vault"       \* b"vault"
StateTag == "state"       \* b"state"

SystemProgram == "system"
VaultProgram == "anchor_vault"   \* declare_id!

NoData == -1              \* account without data

Amounts == 0..MaxAmount

\* ------------------------------------------------------------ addresses
\* sha256(seeds, bump, program id) is modelled as the injective tuple of
\* its inputs; a user's own (on-curve) address is <<"wallet", key, 0>>.
Hash(tag, key, bump) == <<tag, key, bump>>

Wallet(key) == <<"wallet", key, 0>>

\* Stand-in for "the candidate address is a point on the ed25519 curve":
\* a fixed table, chosen so that for key 1 the vault bump (254) differs
\* from the record bump (255) and for key 2 they agree (255).
OnCurve(tag, key, bump) == <<tag, key, bump>> \in {<<"vault", 1, 255>>}

\* Pubkey::create_program_address: the address of the seeds with the given
\* bump, or nothing when the candidate is on the curve.
CreateProgramAddress(tag, key, bump) ==
  IF OnCurve(tag, key, bump) THEN {} ELSE {Hash(tag, key, bump)}

\* Pubkey::find_program_address: search the bump downward from 255 for the
\* first candidate off the curve.
RECURSIVE FindBumpFrom(_, _, _)
FindBumpFrom(tag, key, bump) ==
  IF ~OnCurve(tag, key, bump) \/ bump = 0 THEN bump
  ELSE FindBumpFrom(tag, key, bump - 1)

FindBump(tag, key) == FindBumpFrom(tag, key, MaxBump)

FindProgramAddress(tag, key) == Hash(tag, key, FindBump(tag, key))

VaultPda(key) == FindProgramAddress(VaultTag, key)
StatePda(key) == FindProgramAddress(StateTag, key)

\* The accounts of the ledger that a caller can name in an instruction.
Addresses ==
  {Wallet(k) : k \in Owners} \cup {VaultPda(k) : k \in Owners}
    \cup {StatePda(k) : k \in Owners}

VARIABLES
  lamports,   \* lamports[a]: balance of account a
  owner,      \* owner[a]: program that owns account a
  data,       \* data[a]: the VaultState.bump stored in a, or NoData
  phase,      \* phase[k]: "Uninitialized", "Initialized" or "Closed", by
              \* the last successful initialize or close signed by k
  last,       \* the last instruction processed and its result
  run         \* the instructions processed so far, as long as they are
              \* initialize, deposit, withdraw, close of one owner

vars == <<lamports, owner, data, phase, last, run>>

\* The ledger as one value, threaded through the steps of an instruction;
\* `transfers` counts the system-program transfers the instruction invoked.
Ledger ==
  [lamports |-> lamports, owner |-> owner, data |-> data, transfers |-> 0]

\* The instruction has written to an account of the ledger.
Written(st) ==
  st.lamports # lamports \/ st.owner # owner \/ st.data # data

Ok(st) == [res |-> "Ok", st |-> st]
Err(e, st) == [res |-> e, st |-> st]

\* ------------------------------------------------------ system program
\* A transfer that debits `from` and credits nobody.
Transfer_nocredit(st0, from, to, amount, signers) ==
  LET st == [st0 EXCEPT !.transfers = @ + 1]
  IN IF from \notin signers THEN Err("MissingRequiredSignature", st)
     ELSE IF st.owner[from] # SystemProgram \/ st.data[from] # NoData
       THEN Err("InvalidArgument", st)
     ELSE IF st.lamports[from] < amount THEN Err("InsufficientFunds", st)
     ELSE Ok([st EXCEPT !.lamports = [@ EXCEPT ![from] = @ - amount]])

\* system_program::transfer: `from` must have signed (directly or through
\* PDA seeds), must be a data-less system account and must hold `amount`.
Transfer(st0, from, to, amount, signers) ==
  LET st == [st0 EXCEPT !.transfers = @ + 1]
  IN IF from \notin signers THEN Err("MissingRequiredSignature", st)
     ELSE IF st.owner[from] # SystemProgram \/ st.data[from] # NoData
       THEN Err("InvalidArgument", st)
     ELSE IF st.lamports[from] < amount THEN Err("InsufficientFunds", st)
     ELSE IF from = to THEN Ok(st)
     ELSE Ok([st EXCEPT !.lamports =
                [@ EXCEPT ![from] = @ - amount, ![to] = @ + amount]])

\* allocate + assign: only a data-less system account can be turned into
\* a program account.
AllocateAssign(st, acct) ==
  IF st.owner[acct] # SystemProgram \/ st.data[acct] # NoData
    THEN Err("AccountAlreadyInUse", st)
  ELSE Ok([st EXCEPT !.owner = [@ EXCEPT ![acct] = VaultProgram],
                     !.data = [@ EXCEPT ![acct] = 0]])

\* init_if_needed instead of init: an existing record is accepted.
InitAccount_ifneeded(st, payer, acct) ==
  IF st.owner[acct] = VaultProgram THEN Ok(st)
  ELSE IF st.lamports[payer] < RecordRent THEN Err("InsufficientFunds", st)
  ELSE AllocateAssign(
         [st EXCEPT !.lamports = [@ EXCEPT ![payer] = @ - RecordRent,
                                           ![acct] = @ + RecordRent]],
         acct)

\* The `init, payer = signer, space = 8 + INIT_SPACE` constraint: fund the
\* account to its rent-exempt minimum from the payer, allocate it and
\* assign it to this program.
InitAccount(st, payer, acct) ==
  IF st.lamports[acct] = 0
    THEN \* system_program::create_account
      IF st.owner[acct] # SystemProgram \/ st.data[acct] # NoData
        THEN Err("AccountAlreadyInUse", st)
      ELSE IF st.lamports[payer] < RecordRent
        THEN Err("InsufficientFunds", st)
      ELSE AllocateAssign(
             [st EXCEPT !.lamports = [@ EXCEPT ![payer] = @ - RecordRent,
                                               ![acct] = @ + RecordRent]],
             acct)
  ELSE IF payer = acct THEN Err("TryingToInitPayerAsProgramAccount", st)
  ELSE LET required == IF RecordRent > st.lamports[acct]
                         THEN RecordRent - st.lamports[acct] ELSE 0
           funded == IF required > 0
                       THEN Transfer(st, payer, acct, required, {payer})
                       ELSE Ok(st)
       IN IF funded.res # "Ok" THEN funded
          ELSE AllocateAssign(funded.st, acct)

\* Closing that drops the account without refunding its lamports.
CloseAccount_norefund(st, acct, dest) ==
  IF acct = dest THEN Err("ConstraintClose", st)
  ELSE Ok([st EXCEPT
             !.lamports = [@ EXCEPT ![acct] = 0],
             !.owner = [@ EXCEPT ![acct] = SystemProgram],
             !.data = [@ EXCEPT ![acct] = NoData]])

\* Closing that refunds the lamports but keeps the account.
CloseAccount_keep(st, acct, dest) ==
  IF acct = dest THEN Err("ConstraintClose", st)
  ELSE Ok([st EXCEPT
             !.lamports = [@ EXCEPT ![dest] = @ + st.lamports[acct],
                                    ![acct] = 0]])

\* The `close = signer` constraint, run when the instruction exits: all
\* lamports of the account go to the destination, the account is handed
\* back to the system program and its data is dropped.
CloseAccount(st, acct, dest) ==
  IF acct = dest THEN Err("ConstraintClose", st)
  ELSE Ok([st EXCEPT
             !.lamports = [@ EXCEPT ![dest] = @ + st.lamports[acct],
                                    ![acct] = 0],
             !.owner = [@ EXCEPT ![acct] = SystemProgram],
             !.data = [@ EXCEPT ![acct] = NoData]])

\* -------------------------------------------------- account validation
\* Signer<'info>: the account must have signed the transaction.
SignerOk(caller, key) == caller = key

\* SystemAccount<'info>: the account is owned by the system program.
SystemAccountOk(st, acct) == st.owner[acct] = SystemProgram

\* Account<'info, VaultState>: the error of loading the account, or "Ok".
LoadVaultState(st, acct) ==
  IF st.owner[acct] = SystemProgram /\ st.lamports[acct] = 0
    THEN "AccountNotInitialized"
  ELSE IF st.owner[acct] # VaultProgram THEN "AccountOwnedByWrongProgram"
  ELSE IF st.data[acct] = NoData THEN "AccountDiscriminatorNotFound"
  ELSE "Ok"

\* The vault account without its seeds constraint.
VaultSeedsOk_any(key, vault) == TRUE

\* seeds = [b"vault", signer.key().as_ref()], bump
VaultSeedsOk(key, vault) == vault = FindProgramAddress(VaultTag, key)

\* seeds = [b"state", signer.key().as_ref()], bump  (Initialize)
InitSeedsOk(key, state) == state = FindProgramAddress(StateTag, key)

\* seeds = [b"state", signer.key().as_ref()], bump = vault_state.bump
StateSeedsOk(st, key, state) ==
  state \in CreateProgramAddress(StateTag, key, st.data[state])

\* VaultAction without the vault_state account.
VaultActionAccounts_norecord(st, caller, key, vault, state) ==
  IF ~SignerOk(caller, key) THEN "AccountNotSigner"
  ELSE IF ~SystemAccountOk(st, vault) THEN "AccountNotSystemOwned"
  ELSE IF ~VaultSeedsOk(key, vault) THEN "ConstraintSeeds"
  ELSE "Ok"

\* #[derive(Accounts)] VaultAction: every account is loaded, then the
\* constraints are checked, in field order.
VaultActionAccounts(st, caller, key, vault, state) ==
  IF ~SignerOk(caller, key) THEN "AccountNotSigner"
  ELSE IF ~SystemAccountOk(st, vault) THEN "AccountNotSystemOwned"
  ELSE IF LoadVaultState(st, state) # "Ok" THEN LoadVaultState(st, state)
  ELSE IF ~VaultSeedsOk(key, vault) THEN "ConstraintSeeds"
  ELSE IF ~StateSeedsOk(st, key, state) THEN "ConstraintSeeds"
  ELSE "Ok"

\* #[derive(Accounts)] Close: the same loading and seeds checks.
CloseAccounts(st, caller, key, vault, state) ==
  VaultActionAccounts(st, caller, key, vault, state)

\* Signer seeds built with the bump of the record instead of the vault's.
VaultSignerSeeds_record(key) ==
  CreateProgramAddress(VaultTag, key, FindBump(StateTag, key))

\* The PDA signer seeds &[b"vault", signer_key, &[ctx.bumps.vault]].
VaultSignerSeeds(key) ==
  CreateProgramAddress(VaultTag, key, FindBump(VaultTag, key))

\* ------------------------------------------------------------ handlers
\* Each handler starts from the ledger `st` and returns the result of the
\* instruction with the ledger as the handler left it.

\* initialize storing the bump of the vault instead of the record's.
initialize_vaultbump(st, key, state) ==
  Ok([st EXCEPT !.data = [@ EXCEPT ![state] = FindBump(VaultTag, key)]])

\* pub fn initialize, after the init constraint created the record.
initialize(st, key, state) ==
  Ok([st EXCEPT !.data = [@ EXCEPT ![state] = FindBump(StateTag, key)]])

\* deposit accepting an amount equal to the rent-exempt floor.
deposit_floor(st, key, vault, amount) ==
  IF st.lamports[vault] # 0 THEN Err("VaultAlreadyExists", st)
  ELSE IF ~(amount >= RentFloor) THEN Err("InvalidAmount", st)
  ELSE Transfer(st, Wallet(key), vault, amount, {Wallet(key)})

\* deposit checking the amount only after the transfer.
deposit_transferfirst(st, key, vault, amount) ==
  IF st.lamports[vault] # 0 THEN Err("VaultAlreadyExists", st)
  ELSE LET moved == Transfer(st, Wallet(key), vault, amount, {Wallet(key)})
       IN IF moved.res # "Ok" THEN moved
          ELSE IF ~(amount > RentFloor) THEN Err("InvalidAmount", moved.st)
          ELSE moved

\* deposit treating a vault at or below the rent-exempt floor as empty.
deposit_remnant(st, key, vault, amount) ==
  IF st.lamports[vault] > RentFloor THEN Err("VaultAlreadyExists", st)
  ELSE IF ~(amount > RentFloor) THEN Err("InvalidAmount", st)
  ELSE Transfer(st, Wallet(key), vault, amount, {Wallet(key)})

\* deposit with the two checks in the other order.
deposit_amountfirst(st, key, vault, amount) ==
  IF ~(amount > RentFloor) THEN Err("InvalidAmount", st)
  ELSE IF st.lamports[vault] # 0 THEN Err("VaultAlreadyExists", st)
  ELSE Transfer(st, Wallet(key), vault, amount, {Wallet(key)})

\* deposit without the empty-vault check.
deposit_nocheck(st, key, vault, amount) ==
  IF ~(amount > RentFloor) THEN Err("InvalidAmount", st)
  ELSE Transfer(st, Wallet(key), vault, amount, {Wallet(key)})

\* pub fn deposit
deposit(st, key, vault, amount) ==
  IF st.lamports[vault] # 0 THEN Err("VaultAlreadyExists", st)
  ELSE IF ~(amount > RentFloor) THEN Err("InvalidAmount", st)
  ELSE Transfer(st, Wallet(key), vault, amount, {Wallet(key)})

\* withdraw through CpiContext::new: the vault's seeds are not presented.
withdraw_nosigner(st, key, vault, amount) ==
  IF ~(st.lamports[vault] >= amount) THEN Err("InsufficientAmount", st)
  ELSE Transfer(st, vault, Wallet(key), amount, {Wallet(key)})

\* withdraw with the balance check off by one.
withdraw_strict(st, key, vault, amount) ==
  IF ~(st.lamports[vault] > amount) THEN Err("InsufficientAmount", st)
  ELSE Transfer(st, vault, Wallet(key), amount,
                {Wallet(key)} \cup VaultSignerSeeds(key))

\* pub fn withdraw
withdraw(st, key, vault, amount) ==
  IF ~(st.lamports[vault] >= amount) THEN Err("InsufficientAmount", st)
  ELSE Transfer(st, vault, Wallet(key), amount,
                {Wallet(key)} \cup VaultSignerSeeds(key))

\* close sweeping whether or not the vault holds anything.
close_always(st, key, vault) ==
  Transfer(st, vault, Wallet(key), st.lamports[vault],
           {Wallet(key)} \cup VaultSignerSeeds(key))

\* close without the sweep.
close_nosweep(st, key, vault) == Ok(st)

\* pub fn close
close(st, key, vault) ==
  IF st.lamports[vault] > 0
    THEN Transfer(st, vault, Wallet(key), st.lamports[vault],
                  {Wallet(key)} \cup VaultSignerSeeds(key))
  ELSE Ok(st)

\* ------------------------------------------------------- instructions
\* The whole instruction: account validation, handler, exit.

InitializeIx(st, caller, key, state) ==
  IF ~SignerOk(caller, key) THEN Err("AccountNotSigner", st)
  ELSE IF ~InitSeedsOk(key, state) THEN Err("ConstraintSeeds", st)
  ELSE LET created == InitAccount(st, Wallet(key), state)
       IN IF created.res # "Ok" THEN created
          ELSE initialize(created.st, key, state)

DepositIx(st, caller, key, vault, state, amount) ==
  LET chk == VaultActionAccounts(st, caller, key, vault, state)
  IN IF chk # "Ok" THEN Err(chk, st) ELSE deposit(st, key, vault, amount)

WithdrawIx(st, caller, key, vault, state, amount) ==
  LET chk == VaultActionAccounts(st, caller, key, vault, state)
  IN IF chk # "Ok" THEN Err(chk, st) ELSE withdraw(st, key, vault, amount)

\* close on a Close struct without `close = signer`: the vault is swept
\* and the record stays.
CloseIx_noclose(st, caller, key, vault, state) ==
  LET chk == CloseAccounts(st, caller, key, vault, state)
  IN IF chk # "Ok" THEN Err(chk, st) ELSE close(st, key, vault)

CloseIx(st, caller, key, vault, state) ==
  LET chk == CloseAccounts(st, caller, key, vault, state)
  IN IF chk # "Ok" THEN Err(chk, st)
     ELSE LET swept == close(st, key, vault)
          IN IF swept.res # "Ok" THEN swept
             ELSE CloseAccount(swept.st, state, Wallet(key))

\* The order of the instructions in a complete use of a vault.
ScenarioOps == <<"initialize", "deposit", "withdraw", "close">>

\* `run` once the instructions have left that order.
OffScenario == [on |-> FALSE, key |-> 0, start |-> 0, steps |-> <<>>]

\* `run` after an instruction.  The run goes on while one owner, signing
\* and naming their own accounts, issues initialize, deposit(a) with
\* a > rent floor, withdraw(w) with 0 < w < a and close, in this order
\* from the initial state.  Each step keeps the amount, the result and the
\* balances of the owner and of the vault after the instruction.
Track(op, caller, key, own, amount, r) ==
  LET n == Len(run.steps)
      after == IF r.res = "Ok" THEN r.st.lamports ELSE lamports
      fits ==
        /\ run.on /\ n < 4
        /\ op = ScenarioOps[n + 1]
        /\ caller = key /\ own
        /\ n > 0 => key = run.key
        /\ op = "deposit" => amount > RentFloor
        /\ op = "withdraw" => (0 < amount /\ amount < run.steps[2].amount)
  IN IF fits
       THEN [on |-> TRUE, key |-> key,
             start |-> IF n = 0 THEN lamports[Wallet(key)] ELSE run.start,
             steps |-> Append(run.steps,
                              [amount |-> amount, res |-> r.res,
                               bal |-> after[Wallet(key)],
                               vault |-> after[VaultPda(key)]])]
     ELSE OffScenario

\* The host commits the ledger of a successful instruction and discards
\* the ledger of a failed one.  `last` describes the instruction: who
\* signed the transaction, the key passed as `signer`, whether the accounts
\* passed were that key's own vault and record (`own`), the amount, the
\* result, whether a failed instruction had written anything before it
\* failed (`dirty`), the number of transfers it invoked, and the balance of
\* that key's vault (`before`) and the key's phase (`was`) when the
\* instruction started.
Commit(op, caller, key, own, amount, r) ==
  /\ lamports' = IF r.res = "Ok" THEN r.st.lamports ELSE lamports
  /\ owner' = IF r.res = "Ok" THEN r.st.owner ELSE owner
  /\ data' = IF r.res = "Ok" THEN r.st.data ELSE data
  /\ phase' = IF r.res = "Ok" /\ op = "initialize"
                THEN [phase EXCEPT ![key] = "Initialized"]
              ELSE IF r.res = "Ok" /\ op = "close"
                THEN [phase EXCEPT ![key] = "Closed"]
              ELSE phase
  /\ last' = [op |-> op, caller |-> caller, signer |-> key, own |-> own,
              amount |-> amount, res |-> r.res, dirty |-> Written(r.st),
              transfers |-> r.st.transfers,
              before |-> lamports[VaultPda(key)], was |-> phase[key]]
  /\ run' = Track(op, caller, key, own, amount, r)

Initialize(caller, key, state) ==
  Commit("initialize", caller, key, state = StatePda(key), 0,
         InitializeIx(Ledger, caller, key, state))

Deposit(caller, key, vault, state, amount) ==
  Commit("deposit", caller, key,
         vault = VaultPda(key) /\ state = StatePda(key), amount,
         DepositIx(Ledger, caller, key, vault, state, amount))

Withdraw(caller, key, vault, state, amount) ==
  Commit("withdraw", caller, key,
         vault = VaultPda(key) /\ state = StatePda(key), amount,
         WithdrawIx(Ledger, caller, key, vault, state, amount))

Close(caller, key, vault, state) ==
  Commit("close", caller, key,
         vault = VaultPda(key) /\ state = StatePda(key), 0,
         CloseIx(Ledger, caller, key, vault, state))

\* Before any instruction: no record, empty vaults, each user either
\* without funds or holding MaxWallet.
Init ==
  /\ \E w \in [Owners -> {0, MaxWallet}] :
       lamports = [a \in Addresses |->
                     IF \E k \in Owners : a = Wallet(k)
                       THEN w[CHOOSE k \in Owners : a = Wallet(k)] ELSE 0]
  /\ owner = [a \in Addresses |-> SystemProgram]
  /\ data = [a \in Addresses |-> NoData]
  /\ phase = [k \in Owners |-> "Uninitialized"]
  /\ last = [op |-> "none", caller |-> 0, signer |-> 0, own |-> FALSE,
             amount |-> 0, res |-> "Ok", dirty |-> FALSE, transfers |-> 0,
             before |-> 0, was |-> "Uninitialized"]
  /\ run = [on |-> TRUE, key |-> 0, start |-> 0, steps |-> <<>>]

\* The (vault, vault_state) accounts a caller passes along with `signer`:
\* any account of the ledger in either place, at most one of the two
\* differing from the signer's own.
AccountPairs(key) ==
  {p \in Addresses \X Addresses : p[1] = VaultPda(key) \/ p[2] = StatePda(key)}

InitializeStep ==
  \E caller \in Owners, key \in Owners, state \in Addresses :
    Initialize(caller, key, state)

DepositStep ==
  \E caller \in Owners, key \in Owners, amount \in Amounts :
    \E p \in AccountPairs(key) : Deposit(caller, key, p[1], p[2], amount)

WithdrawStep ==
  \E caller \in Owners, key \in Owners, amount \in Amounts :
    \E p \in AccountPairs(key) : Withdraw(caller, key, p[1], p[2], amount)

CloseStep ==
  \E caller \in Owners, key \in Owners :
    \E p \in AccountPairs(key) : Close(caller, key, p[1], p[2])

Next == InitializeStep \/ DepositStep \/ WithdrawStep \/ CloseStep

Spec == Init /\ [][Next]_vars

\* ------------------------------------------------------ state read-outs
\* The user's own balance, the balance of the user's vault, the lamports
\* held by the user's record, and whether the record is live.
Bal(k) == lamports[Wallet(k)]
VaultBal(k) == lamports[VaultPda(k)]
RecordBal(k) == lamports[StatePda(k)]
Live(k) == owner[StatePda(k)] = VaultProgram

\* The step is instruction `op`, signed by k and naming k's own vault and
\* record.
Call(op, k) ==
  /\ last'.op = op
  /\ last'.caller = k
  /\ last'.signer = k
  /\ last'.own

\* The step leaves every account as it was.
NothingChanged == UNCHANGED <<lamports, owner, data>>

\* ----------------------------------------------------------------- C1
\* C1: with a live record and vault balance b, withdraw(w) with w <= b
\* succeeds, leaves the vault at b - w and credits the owner with w;
\* with w > b it fails with InsufficientAmount and changes nothing.
C1_Withdraw ==
  [][\A k \in Owners :
       (Call("withdraw", k) /\ Live(k)) =>
         IF last'.amount <= VaultBal(k)
           THEN /\ last'.res = "Ok"
                /\ VaultBal(k)' = VaultBal(k) - last'.amount
                /\ Bal(k)' = Bal(k) + last'.amount
           ELSE /\ last'.res = "InsufficientAmount"
                /\ NothingChanged]_vars

\* A partial withdrawal has succeeded.
C1_Witness ==
  /\ last.op = "withdraw" /\ last.res = "Ok" /\ last.own
  /\ last.amount > 0
  /\ last.before > last.amount
  /\ lamports[VaultPda(last.signer)] = last.before - last.amount

\* ----------------------------------------------------------------- C2
\* C2 as stated: with a live record, an empty vault and a > rent_floor,
\* deposit(a) succeeds, puts exactly a in the vault and takes a from the
\* owner.
C2_Original ==
  [][\A k \in Owners :
       (Call("deposit", k) /\ Live(k) /\ VaultBal(k) = 0
          /\ last'.amount > RentFloor) =>
         /\ last'.res = "Ok"
         /\ VaultBal(k)' = last'.amount
         /\ Bal(k)' = Bal(k) - last'.amount]_vars

\* C2 amended: the deposit succeeds as stated when the owner holds at
\* least a; when the owner holds less, the transfer fails and nothing
\* changes.  A deposit on a vault that is not empty fails with
\* VaultAlreadyExists and changes nothing.
C2_Deposit ==
  [][\A k \in Owners :
       /\ (Call("deposit", k) /\ Live(k) /\ VaultBal(k) = 0
             /\ last'.amount > RentFloor) =>
            IF Bal(k) >= last'.amount
              THEN /\ last'.res = "Ok"
                   /\ VaultBal(k)' = last'.amount
                   /\ Bal(k)' = Bal(k) - last'.amount
              ELSE /\ last'.res = "InsufficientFunds"
                   /\ NothingChanged
       /\ (Call("deposit", k) /\ Live(k) /\ VaultBal(k) # 0) =>
            /\ last'.res = "VaultAlreadyExists"
            /\ NothingChanged]_vars

\* A deposit was refused because the vault still holds an earlier deposit.
C2_Witness ==
  /\ last.op = "deposit" /\ last.res = "VaultAlreadyExists" /\ last.own
  /\ last.amount > RentFloor
  /\ lamports[VaultPda(last.signer)] > RentFloor

\* ----------------------------------------------------------------- C3
\* C3 as stated: close on a live record whose vault holds b > 0 leaves the
\* vault at 0, the owner up by b and no record.
C3_Original ==
  [][\A k \in Owners :
       (Call("close", k) /\ Live(k) /\ VaultBal(k) > 0) =>
         /\ last'.res = "Ok"
         /\ VaultBal(k)' = 0
         /\ Bal(k)' = Bal(k) + VaultBal(k)
         /\ ~Live(k)']_vars

\* C3 amended: the owner is up by b plus the storage deposit of the
\* record; a close without a live record fails and changes nothing.
C3_Close ==
  [][\A k \in Owners :
       /\ (Call("close", k) /\ Live(k) /\ VaultBal(k) > 0) =>
            /\ last'.res = "Ok"
            /\ VaultBal(k)' = 0
            /\ Bal(k)' = Bal(k) + VaultBal(k) + RecordRent
            /\ ~Live(k)'
            /\ RecordBal(k)' = 0
       /\ (last'.op = "close" /\ last'.signer = k /\ ~Live(k)) =>
            /\ last'.res # "Ok"
            /\ NothingChanged]_vars

\* A close has swept a funded vault and destroyed the record.
C3_Witness ==
  /\ last.op = "close" /\ last.res = "Ok" /\ last.own
  /\ last.before > 0
  /\ lamports[VaultPda(last.signer)] = 0
  /\ owner[StatePda(last.signer)] = SystemProgram

\* ----------------------------------------------------------------- C4
\* C4: in every reachable state an owner without a live record has an
\* empty vault.
C4_NoStrandedFunds ==
  \A k \in Owners : ~Live(k) => VaultBal(k) = 0

\* The record was destroyed by a close that found funds in the vault.
C4_Witness ==
  /\ last.op = "close" /\ last.res = "Ok"
  /\ last.before > RentFloor
  /\ ~Live(last.signer)
  /\ \E j \in Owners : j # last.signer /\ Live(j) /\ VaultBal(j) > 0

\* ----------------------------------------------------------------- C5
\* C5: an instruction signed by X changes nothing of another owner Y
\* (vault balance, record, own balance); a vault is debited only by a
\* successful withdraw or close signed by its own owner, and the debit is
\* credited to that owner.
C5_Isolation ==
  [][/\ \A x \in Owners, y \in Owners :
          (x # y /\ last'.caller = x) =>
            /\ VaultBal(y)' = VaultBal(y)
            /\ Bal(y)' = Bal(y)
            /\ RecordBal(y)' = RecordBal(y)
            /\ owner'[StatePda(y)] = owner[StatePda(y)]
            /\ data'[StatePda(y)] = data[StatePda(y)]
     /\ \A k \in Owners :
          VaultBal(k)' < VaultBal(k) =>
            /\ last'.op \in {"withdraw", "close"}
            /\ last'.res = "Ok"
            /\ last'.caller = k /\ last'.signer = k
            /\ Bal(k)' = Bal(k) + (VaultBal(k) - VaultBal(k)')
                           + (IF last'.op = "close" THEN RecordBal(k) ELSE 0)
    ]_vars

\* An instruction that named an account other than the signer's own was
\* refused while the other owner had a funded vault.
C5_Witness ==
  /\ last.op \in {"deposit", "withdraw", "close"}
  /\ last.caller = last.signer /\ ~last.own
  /\ last.res = "ConstraintSeeds"
  /\ \E y \in Owners : y # last.caller /\ Live(y) /\ VaultBal(y) > 0

\* ----------------------------------------------------------------- C6
\* The key an address was derived for.
KeyOf(a) == a[2]

\* The accounts derived for k that this program owns.
RecordsOf(k) == {a \in Addresses : owner[a] = VaultProgram /\ KeyOf(a) = k}

\* C6: initialize on an owner with a live record fails (the account is
\* already in use) and changes nothing, the stored bump included; no owner
\* ever has more than one live record.
C6_NoDoubleInit ==
  /\ [](\A k \in Owners : Cardinality(RecordsOf(k)) <= 1)
  /\ [][\A k \in Owners :
          (Call("initialize", k) /\ Live(k)) =>
            /\ last'.res = "AccountAlreadyInUse"
            /\ NothingChanged]_vars

\* A second initialize was refused.
C6_Witness ==
  /\ last.op = "initialize" /\ last.own /\ last.caller = last.signer
  /\ last.res = "AccountAlreadyInUse"
  /\ last.was = "Initialized"
  /\ Live(last.signer)

\* ----------------------------------------------------------------- C7
\* C7: while the signer has no live record (never initialized, or closed)
\* every deposit and every withdraw fails and changes nothing.
C7_OnlyInitialized ==
  [][\A k \in Owners :
       (last'.op \in {"deposit", "withdraw"} /\ last'.signer = k
          /\ (~Live(k) \/ phase[k] # "Initialized")) =>
         /\ last'.res # "Ok"
         /\ NothingChanged]_vars

\* A deposit of a valid amount on the signer's own accounts was refused
\* after the record had been closed.
C7_Witness ==
  /\ last.op = "deposit" /\ last.own /\ last.caller = last.signer
  /\ last.was = "Closed"
  /\ last.amount > RentFloor
  /\ lamports[Wallet(last.signer)] >= last.amount
  /\ last.res = "AccountNotInitialized"

\* ----------------------------------------------------------------- C8
\* C8 as stated: with a live record, deposit(a) with a <= rent_floor fails
\* with InvalidAmount and changes nothing.
C8_Original ==
  [][\A k \in Owners :
       (Call("deposit", k) /\ Live(k) /\ last'.amount <= RentFloor) =>
         /\ last'.res = "InvalidAmount"
         /\ NothingChanged]_vars

\* C8 amended: such a deposit fails and changes nothing; the error is
\* InvalidAmount when the vault is empty and VaultAlreadyExists when it is
\* not.
C8_SmallDeposit ==
  [][\A k \in Owners :
       (Call("deposit", k) /\ Live(k) /\ last'.amount <= RentFloor) =>
         /\ last'.res = IF VaultBal(k) = 0 THEN "InvalidAmount"
                        ELSE "VaultAlreadyExists"
         /\ NothingChanged]_vars

\* A deposit of exactly the rent-exempt floor was refused.
C8_Witness ==
  /\ last.op = "deposit" /\ last.own /\ last.caller = last.signer
  /\ last.amount = RentFloor
  /\ last.res = "InvalidAmount"
  /\ Live(last.signer)
  /\ lamports[Wallet(last.signer)] >= last.amount

\* ----------------------------------------------------------------- C9
\* C9: an instruction that returns an error leaves every balance and every
\* record as it was, and had written nothing before it failed.
C9_NoPartialEffect ==
  [][last'.res # "Ok" => (NothingChanged /\ ~last'.dirty)]_vars

\* A deposit passed both checks and then failed in the transfer.
C9_Witness ==
  /\ last.op = "deposit" /\ last.own
  /\ last.res = "InsufficientFunds"
  /\ last.amount > RentFloor
  /\ ~last.dirty

\* ---------------------------------------------------------------- C10
\* C10: after a close, initialize succeeds and stores the bump derived for
\* the record tag and the owner; the vault is empty, and deposit and
\* withdraw work on it again.
C10_Reinitialize ==
  [][\A k \in Owners :
       /\ (phase[k] = "Closed" /\ Call("initialize", k)) =>
            /\ last'.res = "Ok"
            /\ Live(k)'
            /\ data'[StatePda(k)] = FindBump(StateTag, k)
            /\ StatePda(k) \in
                 CreateProgramAddress(StateTag, k, data'[StatePda(k)])
            /\ VaultBal(k)' = 0
       /\ (last.op = "initialize" /\ last.res = "Ok" /\ last.was = "Closed"
             /\ last.signer = k) =>
            /\ VaultBal(k) = 0
            /\ (Call("deposit", k) /\ last'.amount > RentFloor
                  /\ Bal(k) >= last'.amount) =>
                 (last'.res = "Ok" /\ VaultBal(k)' = last'.amount)
            /\ (Call("withdraw", k) /\ last'.amount <= VaultBal(k)) =>
                 last'.res = "Ok"]_vars

\* A closed record has been initialized again.
C10_Witness ==
  /\ last.op = "initialize" /\ last.res = "Ok"
  /\ last.was = "Closed"
  /\ Live(last.signer)
  /\ data[StatePda(last.signer)] = FindBump(StateTag, last.signer)

\* ---------------------------------------------------------------- C11
\* The steps of the run so far, and the deposit and withdraw amounts.
Steps == run.steps
RunA == Steps[2].amount
RunW == Steps[3].amount

\* What the run must show after its withdraw and after its close, the
\* close crediting the owner with at least / exactly `credit`.
RunAmounts(exact, credit) ==
  /\ Len(Steps) >= 2 =>
       /\ Steps[2].vault = RunA
       /\ Steps[2].bal = Steps[1].bal - RunA
  /\ Len(Steps) >= 3 =>
       /\ Steps[3].vault = RunA - RunW
       /\ Steps[3].bal = Steps[2].bal + RunW
  /\ Len(Steps) = 4 =>
       /\ Steps[4].vault = 0
       /\ VaultBal(run.key) = 0
       /\ ~Live(run.key)
       /\ IF exact THEN Steps[4].bal = Steps[3].bal + credit
          ELSE Steps[4].bal >= Steps[3].bal + credit

\* C11 as stated: initialize; deposit(a); withdraw(w); close by one owner
\* from the initial state succeeds at every step, the vault holds a - w
\* after the withdraw and 0 after the close, the record is gone and the
\* owner has received w and then a - w.
C11_Original ==
  run.on =>
    /\ \A i \in 1..Len(Steps) : Steps[i].res = "Ok"
    /\ RunAmounts(FALSE, IF Len(Steps) >= 3 THEN RunA - RunW ELSE 0)

\* C11 amended: the same for an owner who starts with at least the
\* record's storage deposit plus a; the close then returns a - w plus the
\* storage deposit, which brings the owner back to the starting balance.
C11_EndToEnd ==
  run.on =>
    /\ (Len(Steps) >= 1 /\ run.start >= RecordRent) =>
         /\ Steps[1].res = "Ok"
         /\ Steps[1].bal = run.start - RecordRent
         /\ Steps[1].vault = 0
    /\ (Len(Steps) >= 2 /\ run.start >= RecordRent + RunA) =>
         /\ \A i \in 1..Len(Steps) : Steps[i].res = "Ok"
         /\ RunAmounts(TRUE, IF Len(Steps) >= 3
                               THEN RunA - RunW + RecordRent ELSE 0)
         /\ Len(Steps) = 4 => Steps[4].bal = run.start

\* The four instructions have run in order and the close has succeeded.
C11_Witness ==
  /\ run.on /\ Len(Steps) = 4
  /\ \A i \in 1..4 : Steps[i].res = "Ok"
  /\ Steps[3].vault > 0
  /\ last.op = "close"

JustDrained(k) ==
  /\ last.op = "withdraw" /\ last.res = "Ok" /\ last.own
  /\ last.signer = k
  /\ last.before > 0 /\ last.amount = last.before

\* While the vault holds anything, every deposit fails with
\* VaultAlreadyExists; on an empty vault no deposit fails with it.
DepositGate(k) ==
  /\ (Call("deposit", k) /\ Live(k) /\ VaultBal(k) # 0) =>
       (last'.res = "VaultAlreadyExists" /\ NothingChanged)
  /\ (Call("deposit", k) /\ Live(k) /\ VaultBal(k) = 0) =>
       last'.res # "VaultAlreadyExists"

\* C13 as stated: deposit is open exactly when the vault is empty, and
\* after a withdraw of the full balance a deposit of a > rent_floor
\* succeeds again.
C13_Original ==
  [][\A k \in Owners :
       /\ DepositGate(k)
       /\ (JustDrained(k) /\ Call("deposit", k)
             /\ last'.amount > RentFloor) =>
            (last'.res = "Ok" /\ VaultBal(k)' = last'.amount)]_vars

\* C13 amended: after the full withdraw, a deposit of a > rent_floor that
\* the owner's balance covers succeeds again.
C13_DepositGate ==
  [][\A k \in Owners :
       /\ DepositGate(k)
       /\ JustDrained(k) => (Live(k) /\ VaultBal(k) = 0)
       /\ (JustDrained(k) /\ Call("deposit", k)
             /\ last'.amount > RentFloor /\ Bal(k) >= last'.amount) =>
            (last'.res = "Ok" /\ VaultBal(k)' = last'.amount)]_vars

\* A deposit was refused on a vault that a partial withdraw had left at or
\* below the rent-exempt floor.
C13_Witness ==
  /\ last.op = "deposit" /\ last.own /\ last.caller = last.signer
  /\ last.res = "VaultAlreadyExists"
  /\ last.amount > RentFloor
  /\ lamports[VaultPda(last.signer)] > 0
  /\ lamports[VaultPda(last.signer)] <= RentFloor

\* ---------------------------------------------------------------- C14
\* C14: on a vault that is not empty deposit fails with
\* VaultAlreadyExists whatever the amount, amounts at or below the
\* rent-exempt floor included; InvalidAmount is returned only for an
\* empty vault and an amount at or below the floor.
C14_CheckOrder ==
  [][\A k \in Owners :
       /\ (Call("deposit", k) /\ Live(k) /\ VaultBal(k) # 0) =>
            last'.res = "VaultAlreadyExists"
       /\ (last'.op = "deposit" /\ last'.signer = k
             /\ last'.res = "InvalidAmount") =>
            /\ VaultBal(k) = 0
            /\ last'.amount <= RentFloor
            /\ last'.own /\ Live(k)
       /\ (Call("deposit", k) /\ Live(k) /\ VaultBal(k) = 0
             /\ last'.amount <= RentFloor) =>
            last'.res = "InvalidAmount"]_vars

\* A deposit at or below the floor was refused with VaultAlreadyExists.
C14_Witness ==
  /\ last.op = "deposit" /\ last.own /\ last.caller = last.signer
  /\ last.amount <= RentFloor
  /\ last.before > 0
  /\ last.res = "VaultAlreadyExists"

\* ---------------------------------------------------------------- C15
\* C15: initialize takes the record's storage deposit from the owner and
\* puts it on the record; close credits the owner with the vault's whole
\* balance plus that deposit; a close right after an initialize gives the
\* owner back exactly what the initialize took.
C15_StorageDeposit ==
  [][\A k \in Owners :
       /\ (Call("initialize", k) /\ last'.res = "Ok") =>
            /\ Bal(k)' = Bal(k) - RecordRent
            /\ RecordBal(k)' = RecordRent
       /\ (Call("close", k) /\ last'.res = "Ok") =>
            /\ RecordBal(k) = RecordRent
            /\ Bal(k)' = Bal(k) + VaultBal(k) + RecordRent
            /\ RecordBal(k)' = 0
       /\ (last.op = "initialize" /\ last.res = "Ok" /\ last.signer = k
             /\ Call("close", k)) =>
            /\ last'.res = "Ok"
            /\ Bal(k)' = Bal(k) + RecordRent]_vars

\* A close on an empty vault has given the owner the storage deposit back:
\* the owner holds the starting balance again.
C15_Witness ==
  /\ last.op = "close" /\ last.res = "Ok" /\ last.own
  /\ last.before = 0
  /\ lamports[StatePda(last.signer)] = 0
  /\ lamports[Wallet(last.signer)] = MaxWallet

\* ---------------------------------------------------------------- C16
\* C16: close on a live record whose vault is empty succeeds without
\* invoking a transfer; the vault account stays as it is, with balance 0,
\* and the record is the only account destroyed (its deposit going to the
\* owner).
C16_CloseEmptyVault ==
  [][\A k \in Owners :
       (Call("close", k) /\ Live(k) /\ VaultBal(k) = 0) =>
         /\ last'.res = "Ok"
         /\ last'.transfers = 0
         /\ VaultBal(k)' = 0
         /\ owner'[VaultPda(k)] = SystemProgram
         /\ data'[VaultPda(k)] = NoData
         /\ ~Live(k)'
         /\ \A a \in Addresses \ {StatePda(k), Wallet(k)} :
              /\ lamports'[a] = lamports[a]
              /\ owner'[a] = owner[a]
              /\ data'[a] = data[a]]_vars

\* A close has destroyed the record of an empty vault without a transfer.
C16_Witness ==
  /\ last.op = "close" /\ last.res = "Ok" /\ last.own
  /\ last.before = 0
  /\ last.transfers = 0
  /\ last.was = "Initialized"
  /\ owner[StatePda(last.signer)] = SystemProgram

\* ---------------------------------------------------------------- C17
\* C17: a live record always stores the bump derived for the record tag
\* and its owner, and re-derives to its own address; deposit and withdraw,
\* successful or not, leave every record as it is.
C17_RecordImmutable ==
  /\ [](\A k \in Owners :
          Live(k) =>
            /\ data[StatePda(k)] = FindBump(StateTag, k)
            /\ StatePda(k) \in
                 CreateProgramAddress(StateTag, k, data[StatePda(k)]))
  /\ [][last'.op \in {"deposit", "withdraw"} =>
          \A k \in Owners :
            /\ owner'[StatePda(k)] = owner[StatePda(k)]
            /\ data'[StatePda(k)] = data[StatePda(k)]
            /\ RecordBal(k)' = RecordBal(k)]_vars

\* A withdraw has succeeded for an owner whose record bump differs from
\* the vault bump, and the record still stores its own.
C17_Witness ==
  /\ last.op = "withdraw" /\ last.res = "Ok" /\ last.amount > 0
  /\ Live(last.signer)
  /\ data[StatePda(last.signer)] = FindBump(StateTag, last.signer)
  /\ data[StatePda(last.signer)] # FindBump(VaultTag, last.signer)

\* ---------------------------------------------------------------- C18
\* C18: withdraw and close authorize the vault debit with the bump derived
\* for the vault, not with the bump stored on the record.  For every owner,
\* whether the two bumps are equal or not, a withdraw within the balance
\* and a close succeed and debit the vault, and no instruction on the
\* owner's own accounts is refused over seeds or a missing signature.
C18_DerivedVaultBump ==
  [][\A k \in Owners :
       /\ (Call("withdraw", k) /\ Live(k) /\ last'.amount <= VaultBal(k)) =>
            /\ last'.res = "Ok"
            /\ last'.transfers = 1
            /\ VaultBal(k)' = VaultBal(k) - last'.amount
       /\ (Call("close", k) /\ Live(k)) =>
            /\ last'.res = "Ok"
            /\ last'.transfers = (IF VaultBal(k) > 0 THEN 1 ELSE 0)
            /\ VaultBal(k)' = 0
       /\ (last'.op \in {"deposit", "withdraw", "close"}
             /\ last'.caller = k /\ last'.signer = k /\ last'.own
             /\ Live(k)) =>
            last'.res \notin {"ConstraintSeeds", "MissingRequiredSignature"}
    ]_vars

\* A close has swept the funded vault of an owner whose vault bump differs
\* from the bump that was stored on the record.
C18_Witness ==
  /\ last.op = "close" /\ last.res = "Ok" /\ last.own
  /\ last.before > 0
  /\ last.transfers = 1
  /\ FindBump(VaultTag, last.signer) # FindBump(StateTag, last.signer)
  /\ lamports[VaultPda(last.signer)] = 0

\* ---------------------------------------------------------------- C19
\* What an owner holds in all: own balance, vault and record.
Holdings(k) == Bal(k) + VaultBal(k) + RecordBal(k)

\* C19: no instruction, successful or failed, changes what an owner holds
\* in all; an owner without a live record has no lamports on the record's
\* address.
C19_Conservation ==
  /\ [](\A k \in Owners : ~Live(k) => RecordBal(k) = 0)
  /\ [][\A k \in Owners : Holdings(k)' = Holdings(k)]_vars

\* A close has returned a funded vault and the record's deposit: the owner
\* holds in the wallet everything they started with.
C19_Witness ==
  /\ last.op = "close" /\ last.res = "Ok" /\ last.own
  /\ last.before > 0
  /\ lamports[VaultPda(last.signer)] = 0
  /\ lamports[StatePda(last.signer)] = 0
  /\ lamports[Wallet(last.signer)] = MaxWallet
====
